---- MODULE Spec2Model ----
(***************************************************************************)
(* Model of src/index.js: the due-date classifier (determineTargetList    *)
(* and its date helpers) and the reconciliation run (organizeCards) with  *)
(* its triggers.                                                          *)
(*                                                                         *)
(* Time is in milliseconds, as in a JavaScript Date.  Instant 0 is local  *)
(* midnight of Monday 2026-10-19; the host's local zone has a fixed       *)
(* offset (no daylight-saving transition inside the modelled window), so  *)
(* a local day is exactly MsPerDay long.                                  *)
(***************************************************************************)
EXTENDS Integers, Sequences, FiniteSets, TLC

----------------------------------------------------------------------------
(* Date arithmetic *)

MsPerSecond == 1000
MsPerMinute == 60 * MsPerSecond
MsPerHour == 60 * MsPerMinute
MsPerDay == 24 * MsPerHour

\* 7 * 24 * 60 * 60 * 1000, the offset added to now for nextWeek
SevenDaysMs == 7 * 24 * 60 * 60 * 1000

\* card.due of a card without a due date (null in the listing)
NoDue == -1

\* index of the local day that contains instant t
DayIndex(t) == t \div MsPerDay

\* Date.prototype.getDay: 0 = Sunday .. 6 = Saturday (day 0 is a Monday)
getDay(t) == (DayIndex(t) + 1) % 7

\* Date.prototype.getDate: day of the month; day 0 is 19 October,
\* day 12 is 31 October, day 13 is 1 November
getDate(t) == IF DayIndex(t) <= 12 THEN 19 + DayIndex(t) ELSE DayIndex(t) - 12

\* Date.prototype.setDate(n): day of month n of t's month, rolling over
\* into the neighbouring months when n is out of range; time of day kept
setDate(t, n) == t + (n - getDate(t)) * MsPerDay

\* Date.prototype.setHours(h, m, s, ms) on the local day of t
setHours(t, h, m, s, ms) ==
    DayIndex(t) * MsPerDay + h * MsPerHour + m * MsPerMinute + s * MsPerSecond + ms

getStartOfDay(date) == setHours(date, 0, 0, 0, 0)

getEndOfDay(date) == setHours(date, 23, 59, 59, 999)

\* mutant: Sunday is not special-cased, its week starts the day after
getWeekBoundariesSundayForward(date) ==
    LET day == getDay(date)
        diff == getDate(date) - day + 1
        weekStart == setDate(date, diff)
        weekEnd == setDate(weekStart, getDate(weekStart) + 6)
    IN [start |-> getStartOfDay(weekStart), end |-> getEndOfDay(weekEnd)]

getWeekBoundaries(date) ==
    LET day == getDay(date)
        diff == getDate(date) - day + (IF day = 0 THEN -6 ELSE 1)
        weekStart == setDate(date, diff)
        weekEnd == setDate(weekStart, getDate(weekStart) + 6)
    IN [start |-> getStartOfDay(weekStart), end |-> getEndOfDay(weekEnd)]

----------------------------------------------------------------------------
(* determineTargetList: the locals and the five interval conditions *)

todayOf(now) == getStartOfDay(now)

tomorrowOf(now) == setDate(todayOf(now), getDate(todayOf(now)) + 1)

currentWeekOf(now) == getWeekBoundaries(now)

\* mutant: next week is looked up six days ahead
nextWeekOfSixDays(now) == getWeekBoundaries(now + SevenDaysMs - MsPerDay)

nextWeekOf(now) == getWeekBoundaries(now + SevenDaysMs)

OverdueCond(due, now) == due < todayOf(now)

\* mutant: the start of today is excluded
TodayCondExclusive(due, now) ==
    due > todayOf(now) /\ due < getEndOfDay(todayOf(now))

TodayCond(due, now) == due >= todayOf(now) /\ due < getEndOfDay(todayOf(now))

TomorrowCond(due, now) ==
    due >= tomorrowOf(now) /\ due < getEndOfDay(tomorrowOf(now))

\* mutant: this week starts with tomorrow instead of the end of tomorrow
ThisWeekFromTomorrow(due, now) ==
    due >= tomorrowOf(now) /\ due <= currentWeekOf(now).end

ThisWeekCond(due, now) ==
    due >= getEndOfDay(tomorrowOf(now)) /\ due <= currentWeekOf(now).end

NextWeekCond(due, now) ==
    due >= nextWeekOf(now).start /\ due <= nextWeekOf(now).end

\* mutant: a missing due date is compared like a timestamp
determineTargetListNoDueCompared(dueDate, now) ==
    IF OverdueCond(dueDate, now) THEN "Overdue"
    ELSE IF TodayCond(dueDate, now) THEN "Today"
    ELSE IF TomorrowCond(dueDate, now) THEN "Tomorrow"
    ELSE IF ThisWeekCond(dueDate, now) THEN "This week"
    ELSE IF NextWeekCond(dueDate, now) THEN "Next week"
    ELSE "Later"

determineTargetList(dueDate, now) ==
    IF dueDate = NoDue THEN "Later"
    ELSE IF OverdueCond(dueDate, now) THEN "Overdue"
    ELSE IF TodayCond(dueDate, now) THEN "Today"
    ELSE IF TomorrowCond(dueDate, now) THEN "Tomorrow"
    ELSE IF ThisWeekCond(dueDate, now) THEN "This week"
    ELSE IF NextWeekCond(dueDate, now) THEN "Next week"
    ELSE "Later"

Buckets == {"Overdue", "Today", "Tomorrow", "This week", "Next week", "Later"}

----------------------------------------------------------------------------
(* State *)

VARIABLES
    clock,        \* the host clock: what new Date() returns
    LIST_MAPPING, \* bucket name -> list id from the environment, or Unset
    board,        \* the board: card id -> [due, idList]
    pc,           \* per trigger: where its organizeCards call stands
    cards,        \* per trigger: the listing organizeCards iterates over
    idx,          \* per trigger: position of the for-of loop in cards
    request,      \* per trigger: the move request awaited (card, list)
    movedCount,   \* per trigger: let movedCount
    errorCount,   \* per trigger: let errorCount
    warnCount,    \* per trigger: console.warn calls of the run
    response,     \* what GET /organize answered
    startupArmed, \* the startup timer of app.listen has not fired yet
    runsStarted,  \* number of organizeCards calls so far
    listOk,       \* history: the run's listing request succeeded
    clean,        \* history: nothing but this run touched the board since
                  \* it started, and the day has not changed
    pred,         \* history: per trigger, the run that directly preceded its run
    outcomes,     \* history: per trigger, what happened to each card examined
    settled,      \* history: no request changed the board and the day did
                  \* not change since the last finished run started
    lastRun,      \* the call that has just finished, until the next one starts:
                  \* what it logged and what it returned
    qNow,         \* classifier check: the instant used as now
    qDue,         \* classifier check: the due value classified
    qBucket       \* classifier check: the result of determineTargetList

runVars == <<pc, cards, idx, request, movedCount, errorCount, warnCount,
             lastRun, response, startupArmed, runsStarted>>

histVars == <<listOk, clean, pred, outcomes, settled>>

envVars == <<clock, LIST_MAPPING, board>>

qVars == <<qNow, qDue, qBucket>>

vars == <<envVars, runVars, histVars, qVars>>

----------------------------------------------------------------------------
(* Bounds and the values the environment is drawn from *)

MaxCards == 2

MaxRuns == 2

MaxDueDay == 22

CardIds == 1..MaxCards

\* the three callers of organizeCards
Triggers == {"cron", "manual", "startup"}

\* an environment variable that is not set
Unset == "undefined"

ListIdOf(b) ==
    CASE b = "Overdue" -> "list-overdue"
      [] b = "Today" -> "list-today"
      [] b = "Tomorrow" -> "list-tomorrow"
      [] b = "This week" -> "list-this-week"
      [] b = "Next week" -> "list-next-week"
      [] b = "Later" -> "list-later"

FullMapping == [b \in Buckets |-> ListIdOf(b)]

\* a complete configuration, and one with TOMORROW_LIST_ID missing
Mappings == {FullMapping, [FullMapping EXCEPT !["Tomorrow"] = Unset]}

\* the clock when the server starts
StartClock == 12 * MsPerDay + 10 * MsPerHour

\* Saturday 31 October 10:00 and 23:00, Sunday 1 November 00:30
Clocks == {StartClock,
           12 * MsPerDay + 23 * MsPerHour,
           13 * MsPerDay + 30 * MsPerMinute}

\* the cards a board may hold at the start: one without due date, one due
\* Saturday 12:00 that sits in the Today list, one due Sunday 09:00;
\* list-inbox is a list that no bucket is mapped to
StartCards == {[due |-> NoDue, idList |-> "list-inbox"],
               [due |-> 12 * MsPerDay + 12 * MsPerHour, idList |-> "list-today"],
               [due |-> 13 * MsPerDay + 9 * MsPerHour, idList |-> "list-inbox"]}

NoRequest == [card |-> 0, list |-> Unset]

NoResponse == [status |-> 0, success |-> FALSE, tallies |-> <<>>]

\* lastRun while no call has just finished
NoRun == [by |-> "none", listOk |-> FALSE, completed |-> FALSE, moved |-> 0,
          errors |-> 0, warned |-> 0, returned |-> <<>>]

\* pred of a run that no undisturbed run directly preceded
NoPred == [valid |-> FALSE, listOk |-> FALSE, moved |-> FALSE, failed |-> FALSE]

\* the instants and due values the classifier is checked on
QNows == {d * MsPerDay + o : d \in 7..13, o \in {0, 10 * MsPerHour, MsPerDay - 1}}

QDues == {d * MsPerDay + o : d \in 5..MaxDueDay,
                             o \in {0, 1, 8 * MsPerHour, MsPerDay - 2, MsPerDay - 1}}
         \cup {NoDue}

----------------------------------------------------------------------------
(* Initial states *)

IdleRuns ==
    /\ pc = [r \in Triggers |-> "idle"]
    /\ cards = [r \in Triggers |-> <<>>]
    /\ idx = [r \in Triggers |-> 0]
    /\ request = [r \in Triggers |-> NoRequest]
    /\ movedCount = [r \in Triggers |-> 0]
    /\ errorCount = [r \in Triggers |-> 0]
    /\ warnCount = [r \in Triggers |-> 0]
    /\ response = NoResponse
    /\ startupArmed = TRUE
    /\ runsStarted = 0
    /\ listOk = [r \in Triggers |-> FALSE]
    /\ clean = [r \in Triggers |-> FALSE]
    /\ pred = [r \in Triggers |-> NoPred]
    /\ outcomes = [r \in Triggers |-> <<>>]
    /\ settled = FALSE
    /\ lastRun = NoRun

Init ==
    /\ clock = StartClock
    /\ LIST_MAPPING \in Mappings
    /\ board \in [CardIds -> StartCards]
    /\ IdleRuns
    /\ qNow = 0
    /\ qDue = NoDue
    /\ qBucket = "none"

----------------------------------------------------------------------------
(* The board client *)

\* what GET /boards/{id}/cards answers: id, due and idList of every card
Listing(b) == [i \in CardIds |-> [id |-> i, due |-> b[i].due, idList |-> b[i].idList]]

\* mutant: the request body does not carry the list, the card stays
MovedNowhere(b, req) == b

\* what PUT /cards/{id} with body {idList} does to the board
Moved(b, req) == [b EXCEPT ![req.card].idList = req.list]

Active(r) == pc[r] # "idle"

\* history kept when the board becomes b2 through a request of run r
Touch(r, b2) ==
    IF b2 = board
    THEN UNCHANGED <<clean, settled>>
    ELSE /\ clean' = [q \in Triggers |-> clean[q] /\ q = r]
         /\ settled' = FALSE

----------------------------------------------------------------------------
(* organizeCards, one await or loop step at a time *)

\* a trigger calls organizeCards: the call runs up to await getAllCards()
StartRun(r) ==
    /\ pc[r] = "idle"
    /\ runsStarted < MaxRuns
    /\ runsStarted' = runsStarted + 1
    /\ pc' = [pc EXCEPT ![r] = "fetch"]
    /\ clean' = [clean EXCEPT ![r] = TRUE]
    /\ pred' = [pred EXCEPT ![r] = [valid |-> settled /\ lastRun.by # "none",
                                     listOk |-> lastRun.listOk,
                                     moved |-> lastRun.moved > 0,
                                     failed |-> lastRun.errors > 0]]
    /\ lastRun' = NoRun
    /\ UNCHANGED <<envVars, cards, idx, request, movedCount, errorCount, warnCount,
                   listOk, outcomes, settled, qVars>>

\* cron.schedule('0 * * * *', ...): the hourly callback
CronTick ==
    /\ StartRun("cron")
    /\ UNCHANGED <<response, startupArmed>>

\* app.get('/organize', ...): a request arrives
ManualRequest ==
    /\ StartRun("manual")
    /\ response' = NoResponse
    /\ UNCHANGED startupArmed

\* setTimeout(organizeCards, 5000) in the app.listen callback
StartupTimer ==
    /\ startupArmed
    /\ StartRun("startup")
    /\ startupArmed' = FALSE
    /\ UNCHANGED response

\* getAllCards: the request succeeded, the cards are returned
FetchOk(r) ==
    /\ pc[r] = "fetch"
    /\ cards' = [cards EXCEPT ![r] = Listing(board)]
    /\ idx' = [idx EXCEPT ![r] = 1]
    /\ pc' = [pc EXCEPT ![r] = "loop"]
    /\ listOk' = [listOk EXCEPT ![r] = TRUE]
    /\ UNCHANGED <<envVars, request, movedCount, errorCount, warnCount,
                   response, startupArmed, runsStarted, clean, pred, outcomes, settled, lastRun, qVars>>

\* getAllCards: network error or non-ok response, caught: returns []
FetchFail(r) ==
    /\ pc[r] = "fetch"
    /\ cards' = [cards EXCEPT ![r] = <<>>]
    /\ idx' = [idx EXCEPT ![r] = 1]
    /\ pc' = [pc EXCEPT ![r] = "loop"]
    /\ listOk' = [listOk EXCEPT ![r] = FALSE]
    /\ UNCHANGED <<envVars, request, movedCount, errorCount, warnCount,
                   response, startupArmed, runsStarted, clean, pred, outcomes, settled, lastRun, qVars>>

\* the card the loop of run r is at
CurrentCard(r) == cards[r][idx[r]]

targetListName(r) == determineTargetList(CurrentCard(r).due, clock)

\* mutant: the list is looked up under a fixed name instead of the bucket
targetListIdLater(r) == LIST_MAPPING["Later"]

targetListId(r) == LIST_MAPPING[targetListName(r)]

AtCard(r) == pc[r] = "loop" /\ idx[r] <= Len(cards[r])

\* mutant: the comparison with the current list is missing
NeedsMoveAlways(card, listId) == TRUE

\* mutant: no card is ever found misplaced
NeedsMoveNever(card, listId) == FALSE

\* if (card.idList !== targetListId)
NeedsMove(card, listId) == card.idList # listId

\* if (result) { movedCount++; }
CountMoved(result, n) == IF result THEN n + 1 ELSE n

\* mutant: a failed move is not counted
CountErrorForgotten(result, n) == n

\* else { errorCount++; }
CountError(result, n) == IF result THEN n ELSE n + 1

Note(r, what) == outcomes' = [outcomes EXCEPT ![r] = Append(@, what)]

\* mutant: a card without a mapped list is counted as an error
SkipUnmappedCounted(r) ==
    /\ AtCard(r)
    /\ targetListId(r) = Unset
    /\ warnCount' = [warnCount EXCEPT ![r] = @ + 1]
    /\ errorCount' = [errorCount EXCEPT ![r] = @ + 1]
    /\ idx' = [idx EXCEPT ![r] = @ + 1]
    /\ outcomes' = [outcomes EXCEPT ![r] = Append(@, "skipped")]
    /\ UNCHANGED <<envVars, pc, cards, request, movedCount, lastRun,
                   response, startupArmed, runsStarted, listOk, clean, pred, settled,
                   qVars>>

\* if (!targetListId) { console.warn(...); continue; }
SkipUnmapped(r) ==
    /\ AtCard(r)
    /\ targetListId(r) = Unset
    /\ warnCount' = [warnCount EXCEPT ![r] = @ + 1]
    /\ idx' = [idx EXCEPT ![r] = @ + 1]
    /\ Note(r, "skipped")
    /\ UNCHANGED <<envVars, pc, cards, request, movedCount, errorCount, lastRun,
                   response, startupArmed, runsStarted, listOk, clean, pred, settled,
                   qVars>>

\* mutant: a card that is already in its list is looked at again and again
AlreadyPlacedStuck(r) ==
    /\ AtCard(r)
    /\ targetListId(r) # Unset
    /\ ~NeedsMove(CurrentCard(r), targetListId(r))
    /\ UNCHANGED vars

\* card.idList === targetListId: nothing to do for this card
AlreadyPlaced(r) ==
    /\ AtCard(r)
    /\ targetListId(r) # Unset
    /\ ~NeedsMove(CurrentCard(r), targetListId(r))
    /\ idx' = [idx EXCEPT ![r] = @ + 1]
    /\ Note(r, "placed")
    /\ UNCHANGED <<envVars, pc, cards, request, movedCount, errorCount, warnCount,
                   lastRun, response, startupArmed, runsStarted, listOk, clean, pred,
                   settled, qVars>>

\* card.idList !== targetListId: moveCard is called and awaited
IssueMove(r) ==
    /\ AtCard(r)
    /\ targetListId(r) # Unset
    /\ NeedsMove(CurrentCard(r), targetListId(r))
    /\ request' = [request EXCEPT ![r] = [card |-> CurrentCard(r).id, list |-> targetListId(r)]]
    /\ pc' = [pc EXCEPT ![r] = "move"]
    /\ UNCHANGED <<envVars, cards, idx, movedCount, errorCount, warnCount,
                   lastRun, response, startupArmed, runsStarted, histVars, qVars>>

\* moveCard returned the updated card: movedCount++
MoveOk(r) ==
    /\ pc[r] = "move"
    /\ board' = Moved(board, request[r])
    /\ Touch(r, Moved(board, request[r]))
    /\ movedCount' = [movedCount EXCEPT ![r] = CountMoved(TRUE, @)]
    /\ errorCount' = [errorCount EXCEPT ![r] = CountError(TRUE, @)]
    /\ pc' = [pc EXCEPT ![r] = "delay"]
    /\ Note(r, "moved")
    /\ UNCHANGED <<clock, LIST_MAPPING, cards, idx, request, warnCount,
                   lastRun, response, startupArmed, runsStarted, listOk, pred, qVars>>

\* mutant: after a failed move the loop goes on to the next card at once
MoveFailNoDelay(r) ==
    /\ pc[r] = "move"
    /\ movedCount' = [movedCount EXCEPT ![r] = CountMoved(FALSE, @)]
    /\ errorCount' = [errorCount EXCEPT ![r] = CountError(FALSE, @)]
    /\ request' = [request EXCEPT ![r] = NoRequest]
    /\ idx' = [idx EXCEPT ![r] = @ + 1]
    /\ pc' = [pc EXCEPT ![r] = "loop"]
    /\ Note(r, "failed")
    /\ UNCHANGED <<envVars, cards, warnCount, lastRun, response,
                   startupArmed, runsStarted, listOk, clean, pred, settled, qVars>>

\* moveCard caught an error (network error or non-ok answer) and returned
\* null: errorCount++.  The board did not apply the update.
MoveFail(r) ==
    /\ pc[r] = "move"
    /\ movedCount' = [movedCount EXCEPT ![r] = CountMoved(FALSE, @)]
    /\ errorCount' = [errorCount EXCEPT ![r] = CountError(FALSE, @)]
    /\ pc' = [pc EXCEPT ![r] = "delay"]
    /\ Note(r, "failed")
    /\ UNCHANGED <<envVars, cards, idx, request, warnCount, lastRun, response,
                   startupArmed, runsStarted, listOk, clean, pred, settled, qVars>>

\* mutant: after the delay that follows a failed move the same card is
\* examined again
DelayElapsedRetry(r) ==
    /\ pc[r] = "delay"
    /\ request' = [request EXCEPT ![r] = NoRequest]
    /\ idx' = [idx EXCEPT ![r] =
                  IF outcomes[r][Len(outcomes[r])] = "failed" THEN @ ELSE @ + 1]
    /\ pc' = [pc EXCEPT ![r] = "loop"]
    /\ UNCHANGED <<envVars, cards, movedCount, errorCount, warnCount,
                   lastRun, response, startupArmed, runsStarted, histVars, qVars>>

\* await new Promise(resolve => setTimeout(resolve, 100)) is over
DelayElapsed(r) ==
    /\ pc[r] = "delay"
    /\ request' = [request EXCEPT ![r] = NoRequest]
    /\ idx' = [idx EXCEPT ![r] = @ + 1]
    /\ pc' = [pc EXCEPT ![r] = "loop"]
    /\ UNCHANGED <<envVars, cards, movedCount, errorCount, warnCount,
                   lastRun, response, startupArmed, runsStarted, histVars, qVars>>

\* the loop is over: the summary is logged, organizeCards returns nothing
\* and its locals are gone; the /organize handler then answers
\* { success: true, message }
Complete(r) ==
    /\ pc[r] = "loop"
    /\ idx[r] > Len(cards[r])
    /\ lastRun' = [by |-> r, listOk |-> listOk[r], completed |-> TRUE,
                   moved |-> movedCount[r], errors |-> errorCount[r],
                   warned |-> warnCount[r], returned |-> <<>>]
    /\ settled' = clean[r]
    /\ response' = IF r = "manual"
                    THEN [status |-> 200, success |-> TRUE, tallies |-> <<>>]
                    ELSE response
    /\ pc' = [pc EXCEPT ![r] = "idle"]
    /\ cards' = [cards EXCEPT ![r] = <<>>]
    /\ idx' = [idx EXCEPT ![r] = 0]
    /\ movedCount' = [movedCount EXCEPT ![r] = 0]
    /\ errorCount' = [errorCount EXCEPT ![r] = 0]
    /\ warnCount' = [warnCount EXCEPT ![r] = 0]
    /\ listOk' = [listOk EXCEPT ![r] = FALSE]
    /\ clean' = [clean EXCEPT ![r] = FALSE]
    /\ pred' = [pred EXCEPT ![r] = NoPred]
    /\ outcomes' = [outcomes EXCEPT ![r] = <<>>]
    /\ UNCHANGED <<envVars, request, startupArmed, runsStarted, qVars>>

\* time passes on the host clock
Tick ==
    /\ \E t \in Clocks :
          /\ t > clock
          /\ clock' = t
          /\ IF DayIndex(t) = DayIndex(clock)
             THEN UNCHANGED <<clean, settled>>
             ELSE /\ clean' = [q \in Triggers |-> FALSE]
                  /\ settled' = FALSE
    /\ UNCHANGED <<LIST_MAPPING, board, runVars, listOk, pred, outcomes, qVars>>

Next ==
    \/ CronTick
    \/ ManualRequest
    \/ StartupTimer
    \/ \E r \in Triggers : FetchOk(r)
    \/ \E r \in Triggers : FetchFail(r)
    \/ \E r \in Triggers : SkipUnmapped(r)
    \/ \E r \in Triggers : AlreadyPlaced(r)
    \/ \E r \in Triggers : IssueMove(r)
    \/ \E r \in Triggers : MoveOk(r)
    \/ \E r \in Triggers : MoveFail(r)
    \/ \E r \in Triggers : DelayElapsed(r)
    \/ \E r \in Triggers : Complete(r)
    \/ Tick

Spec == Init /\ [][Next]_vars

----------------------------------------------------------------------------
(* The same server when its triggers never overlap: a trigger fires only   *)
(* while no organizeCards call is in progress                              *)

Quiet == \A r \in Triggers : ~Active(r)

NextSerial ==
    \/ Quiet /\ CronTick
    \/ Quiet /\ ManualRequest
    \/ Quiet /\ StartupTimer
    \/ \E r \in Triggers : FetchOk(r)
    \/ \E r \in Triggers : FetchFail(r)
    \/ \E r \in Triggers : SkipUnmapped(r)
    \/ \E r \in Triggers : AlreadyPlaced(r)
    \/ \E r \in Triggers : IssueMove(r)
    \/ \E r \in Triggers : MoveOk(r)
    \/ \E r \in Triggers : MoveFail(r)
    \/ \E r \in Triggers : DelayElapsed(r)
    \/ \E r \in Triggers : Complete(r)
    \/ Tick

SpecSerial == Init /\ [][NextSerial]_vars

----------------------------------------------------------------------------
(* Progress: every board request is answered, with success or failure,     *)
(* every timer fires, and the event loop runs the code that follows an     *)
(* await once the awaited promise is settled                               *)

\* the next step of the organizeCards call of trigger r
RunStep(r) ==
    \/ FetchOk(r)
    \/ FetchFail(r)
    \/ SkipUnmapped(r)
    \/ AlreadyPlaced(r)
    \/ IssueMove(r)
    \/ MoveOk(r)
    \/ MoveFail(r)
    \/ DelayElapsed(r)
    \/ Complete(r)

Progress == \A r \in Triggers : WF_vars(RunStep(r))

----------------------------------------------------------------------------
(* The server over one day, with no limit on the number of calls: the      *)
(* hourly callback fires again and again and /organize is requested again  *)
(* and again, each while no call is in progress                            *)

\* a trigger calls organizeCards once more
StartRunAgain(r) ==
    /\ pc[r] = "idle"
    /\ pc' = [pc EXCEPT ![r] = "fetch"]
    /\ clean' = [clean EXCEPT ![r] = TRUE]
    /\ pred' = [pred EXCEPT ![r] = [valid |-> settled /\ lastRun.by # "none",
                                     listOk |-> lastRun.listOk,
                                     moved |-> lastRun.moved > 0,
                                     failed |-> lastRun.errors > 0]]
    /\ lastRun' = NoRun
    /\ UNCHANGED <<envVars, cards, idx, request, movedCount, errorCount, warnCount,
                   listOk, outcomes, settled, runsStarted, qVars>>

\* cron.schedule('0 * * * *', ...): the callback of the next full hour
CronAgain ==
    /\ StartRunAgain("cron")
    /\ UNCHANGED <<response, startupArmed>>

\* app.get('/organize', ...): one more request arrives
ManualAgain ==
    /\ StartRunAgain("manual")
    /\ response' = NoResponse
    /\ UNCHANGED startupArmed

\* time passes on the host clock within the day
TickToday ==
    /\ Tick
    /\ DayIndex(clock') = DayIndex(clock)

NextRepeat ==
    \/ Quiet /\ CronAgain
    \/ Quiet /\ ManualAgain
    \/ \E r \in Triggers : FetchOk(r)
    \/ \E r \in Triggers : FetchFail(r)
    \/ \E r \in Triggers : SkipUnmapped(r)
    \/ \E r \in Triggers : AlreadyPlaced(r)
    \/ \E r \in Triggers : IssueMove(r)
    \/ \E r \in Triggers : MoveOk(r)
    \/ \E r \in Triggers : MoveFail(r)
    \/ \E r \in Triggers : DelayElapsed(r)
    \/ \E r \in Triggers : Complete(r)
    \/ TickToday

\* every request is answered and every timer fires
SpecRepeat == Init /\ [][NextRepeat]_vars /\ Progress

\* the hourly callback keeps firing, and move requests that are made again
\* and again do not fail for ever (which is the least that requests
\* eventually succeeding for each card implies)
Recurrence ==
    /\ WF_vars(Quiet /\ CronAgain)
    /\ SF_vars(\E r \in Triggers : MoveOk(r))

SpecRetry == Init /\ [][NextRepeat]_vars /\ Progress /\ Recurrence

----------------------------------------------------------------------------
(* The classifier alone, over every instant of QNows and due of QDues *)

InitClassify ==
    /\ qNow \in QNows
    /\ qDue \in QDues
    /\ qBucket = "none"
    /\ clock = StartClock
    /\ LIST_MAPPING = FullMapping
    /\ board = [i \in CardIds |-> [due |-> NoDue, idList |-> "list-inbox"]]
    /\ IdleRuns

\* determineTargetList(card.due) called at instant qNow
Classify ==
    /\ qBucket = "none"
    /\ qBucket' = determineTargetList(qDue, qNow)
    /\ UNCHANGED <<qNow, qDue, envVars, runVars, histVars>>

NextClassify == Classify

SpecClassify == InitClassify /\ [][NextClassify]_vars

----------------------------------------------------------------------------
(* Properties of a run *)

\* run r has left its loop and is about to log its summary
AtEnd(r) == pc[r] = "loop" /\ idx[r] > Len(cards[r])

Count(seq, what) == Cardinality({i \in 1..Len(seq) : seq[i] = what})

\* the list the configuration maps the bucket of a due date to, at instant now
MappedList(due, now) == LIST_MAPPING[determineTargetList(due, now)]

\* C1: when the listing request fails, the run ends as a run-level failure:
\* it is not logged as a completed run, and GET /organize answers with a
\* failure, not with success.
C1_ListingFailureReported ==
    (lastRun.by # "none" /\ ~lastRun.listOk) =>
        /\ ~lastRun.completed
        /\ (lastRun.by = "manual" /\ response # NoResponse) => ~response.success

\* C2 as amended: a run that directly follows a run whose listing succeeded
\* and none of whose moves failed, with no other change of the board and no
\* change of day since that first run started, issues no move request and
\* counts no move.
C2_SecondRunMovesNothing ==
    \A r \in Triggers :
        (Active(r) /\ clean[r] /\ pred[r].valid /\ pred[r].listOk /\ ~pred[r].failed) =>
            /\ pc[r] # "move"
            /\ movedCount[r] = 0
            /\ errorCount[r] = 0

C2_Witness ==
    \E r \in Triggers :
        /\ AtEnd(r) /\ listOk[r] /\ clean[r]
        /\ Len(cards[r]) = MaxCards
        /\ pred[r].valid /\ pred[r].listOk /\ ~pred[r].failed /\ pred[r].moved

\* C2 as stated: the second of two runs in succession, with no other change
\* of the board and no change of day, issues no move request.
C2_Original ==
    \A r \in Triggers :
        (Active(r) /\ clean[r] /\ pred[r].valid) =>
            /\ pc[r] # "move"
            /\ movedCount[r] = 0
            /\ errorCount[r] = 0

\* C3: a failed move does not end the run: when the loop is left every listed
\* card has been handled, and at every moment movedCount is the number of
\* move requests that succeeded and errorCount the number that failed.
C3_PartialFailureIsolation ==
    \A r \in Triggers :
        /\ movedCount[r] = Count(outcomes[r], "moved")
        /\ errorCount[r] = Count(outcomes[r], "failed")
        /\ AtEnd(r) => Len(outcomes[r]) = Len(cards[r])

C3_Witness ==
    \E r \in Triggers :
        /\ AtEnd(r)
        /\ outcomes[r] = <<"failed", "moved">>
        /\ movedCount[r] = 1 /\ errorCount[r] = 1

\* C4: a move request is issued for a card only if the list it was listed in
\* differs from the list mapped to the bucket of its due date, and the request
\* names that card and that list; a card listed in the list of its bucket
\* gets no move request.
C4_MoveOnlyWhenMisplaced ==
    [][\A r \in Triggers :
          /\ (pc[r] = "loop" /\ pc'[r] = "move") =>
                /\ MappedList(CurrentCard(r).due, clock) # Unset
                /\ CurrentCard(r).idList # MappedList(CurrentCard(r).due, clock)
                /\ request'[r] = [card |-> CurrentCard(r).id,
                                  list |-> MappedList(CurrentCard(r).due, clock)]
          /\ (AtCard(r) /\ CurrentCard(r).idList = MappedList(CurrentCard(r).due, clock)) =>
                pc'[r] # "move"]_vars

C4_Witness ==
    \E r \in Triggers :
        /\ pc[r] = "move"
        /\ Count(outcomes[r], "placed") > 0
        /\ request[r].list = MappedList(board[request[r].card].due, clock)

\* C5: when a run that listed the cards and had no failed move leaves its
\* loop, with no other change of the board and no change of day since it
\* started, every listed card whose bucket has a mapped list is in that list
\* and every other listed card is where the listing found it.
C5_CardsEndInMappedList ==
    \A r \in Triggers :
        (AtEnd(r) /\ listOk[r] /\ errorCount[r] = 0 /\ clean[r]) =>
            \A i \in 1..Len(cards[r]) :
                IF MappedList(cards[r][i].due, clock) # Unset
                THEN board[cards[r][i].id].idList = MappedList(cards[r][i].due, clock)
                ELSE board[cards[r][i].id].idList = cards[r][i].idList

C5_Witness ==
    \E r \in Triggers :
        /\ AtEnd(r) /\ listOk[r] /\ errorCount[r] = 0 /\ clean[r]
        /\ movedCount[r] > 0
        /\ warnCount[r] > 0

\* C6: a card whose bucket has no mapped list is skipped: the step that
\* examines it issues no move request, changes neither count nor the board,
\* and leaves the run in its loop at the next card.
C6_UnmappedBucketSkipped ==
    [][\A r \in Triggers :
          (AtCard(r) /\ MappedList(CurrentCard(r).due, clock) = Unset
             /\ <<pc'[r], idx'[r]>> # <<pc[r], idx[r]>>) =>
                /\ pc'[r] = "loop"
                /\ idx'[r] = idx[r] + 1
                /\ cards'[r] = cards[r]
                /\ request'[r] = NoRequest
                /\ movedCount'[r] = movedCount[r]
                /\ errorCount'[r] = errorCount[r]
                /\ board' = board]_vars

C6_Witness ==
    \E r \in Triggers :
        /\ AtEnd(r)
        /\ Len(outcomes[r]) = 2
        /\ outcomes[r][1] = "skipped"
        /\ outcomes[r][Len(outcomes[r])] = "moved"
        /\ warnCount[r] = 1 /\ movedCount[r] = 1 /\ errorCount[r] = 0

\* C7: a run that obtained the card list hands its caller the three counts
\* moved, skipped and failed, and GET /organize answers with them.
C7_TalliesReported ==
    (lastRun.by # "none" /\ lastRun.listOk) =>
        /\ lastRun.returned = <<lastRun.moved, lastRun.warned, lastRun.errors>>
        /\ (lastRun.by = "manual" /\ response # NoResponse) =>
              response.tallies = <<lastRun.moved, lastRun.warned, lastRun.errors>>

----------------------------------------------------------------------------
(* Properties of the classifier *)

\* the buckets whose interval condition holds for due at instant now
Holding(due, now) ==
    {b \in Buckets :
        \/ b = "Overdue" /\ OverdueCond(due, now)
        \/ b = "Today" /\ TodayCond(due, now)
        \/ b = "Tomorrow" /\ TomorrowCond(due, now)
        \/ b = "This week" /\ ThisWeekCond(due, now)
        \/ b = "Next week" /\ NextWeekCond(due, now)}

Classified == qBucket # "none" /\ qDue # NoDue

\* C8 as amended: at most one of the five interval conditions holds, and the
\* result is the bucket of that condition (Later when none holds), except when
\* now is a Sunday and due lies in [tomorrow, end of tomorrow): then exactly
\* the Tomorrow and the Next week conditions hold and the order of the checks
\* decides for Tomorrow.
C8_DisjointExceptSundayTomorrow ==
    Classified =>
        \/ /\ Holding(qDue, qNow) = {}
           /\ qBucket = "Later"
        \/ Holding(qDue, qNow) = {qBucket}
        \/ /\ getDay(qNow) = 0
           /\ qDue >= tomorrowOf(qNow) /\ qDue < getEndOfDay(tomorrowOf(qNow))
           /\ Holding(qDue, qNow) = {"Tomorrow", "Next week"}
           /\ qBucket = "Tomorrow"

C8_Witness ==
    /\ Classified
    /\ getDay(qNow) = 3
    /\ Holding(qDue, qNow) = {"This week"}
    /\ qBucket = "This week"

\* C8 as stated: for every now and due at most one of the five interval
\* conditions holds.
C8_Original == Classified => Cardinality(Holding(qDue, qNow)) <= 1

\* C9: a due between the start of today and the end of next week is
\* classified Today, Tomorrow, This week or Next week, unless it lies
\* strictly between currentWeek.end and nextWeek.start.
C9_OnlyKnownHole ==
    (/\ Classified
     /\ qDue >= todayOf(qNow)
     /\ qDue <= nextWeekOf(qNow).end
     /\ ~(qDue > currentWeekOf(qNow).end /\ qDue < nextWeekOf(qNow).start)) =>
        qBucket \in {"Today", "Tomorrow", "This week", "Next week"}

\* C10: a due equal to the start of today is Today, a due one millisecond
\* before it is Overdue, a due one day after it is Tomorrow.
C10_BoundaryExactness ==
    Classified =>
        /\ qDue = todayOf(qNow) => qBucket = "Today"
        /\ qDue = todayOf(qNow) - 1 => qBucket = "Overdue"
        /\ qDue = todayOf(qNow) + MsPerDay => qBucket = "Tomorrow"

C10_Witness ==
    /\ Classified
    /\ qNow # todayOf(qNow)
    /\ qDue = todayOf(qNow) + MsPerDay
    /\ qBucket = "Tomorrow"

\* C11 as amended: for every day of the week of now, nextWeek.start is the
\* millisecond right after currentWeek.end, so no timestamp lies strictly
\* between the This week and the Next week windows.
C11_WeeksAdjoin ==
    Classified => nextWeekOf(qNow).start = currentWeekOf(qNow).end + 1

C11_Witness ==
    /\ Classified
    /\ getDay(qNow) = 6
    /\ qDue = currentWeekOf(qNow).end + 1
    /\ qDue = nextWeekOf(qNow).start
    /\ qBucket = "Next week"

\* C11 as stated: there is a day of the week for now such that some
\* timestamp lies strictly between currentWeek.end and nextWeek.start.
C11_Original ==
    \E now \in QNows :
        \E t \in currentWeekOf(now).end + 1 .. nextWeekOf(now).start - 1 :
            /\ t > currentWeekOf(now).end
            /\ t < nextWeekOf(now).start
            /\ qNow = qNow

\* C19: for every date d, getWeekBoundaries(d).start is 00:00:00.000 of the
\* latest Monday not after d (six days earlier for a Sunday), the end is
\* 23:59:59.999 of the Sunday six days after that Monday, and
\* start <= d <= end, also when the week spans a month boundary.
\* (Checked for the dates of the first three modelled weeks, whose week end
\* is a representable instant.)
C19_MondayAnchored ==
    Classified =>
        \A d \in {x \in {qNow, qNow + SevenDaysMs, qDue} : x < 3 * SevenDaysMs} :
            LET w == getWeekBoundaries(d)
                monday == (DayIndex(d) - (DayIndex(d) % 7)) * MsPerDay
            IN /\ w.start = monday
               /\ w.end = monday + 7 * MsPerDay - 1
               /\ w.start <= d /\ d <= w.end
               /\ d - w.start < 7 * MsPerDay

C19_Witness ==
    /\ Classified
    /\ getDay(qNow) = 0
    /\ getDate(qNow) = 1
    /\ getWeekBoundaries(qNow).start = qNow - 6 * MsPerDay - (qNow % MsPerDay)
    /\ getDate(getWeekBoundaries(qNow).start) = 26
    /\ qBucket = "Today"

\* the loop of run r takes a step
Steps(r) == pc'[r] # pc[r] \/ idx'[r] # idx[r]

\* C12: a card with no due date is classified Later for every now, so the
\* run that examines it issues a move request to the Later list, unless the
\* card is already there (nothing is done) or the Later list is unmapped
\* (the card is skipped).
C12_NoDueGoesLater ==
    [][\A r \in Triggers :
          (AtCard(r) /\ CurrentCard(r).due = NoDue /\ Steps(r)) =>
              /\ \A now \in QNows \cup Clocks : determineTargetList(NoDue, now) = "Later"
              /\ IF LIST_MAPPING["Later"] = Unset
                 THEN /\ pc'[r] = "loop" /\ idx'[r] = idx[r] + 1
                      /\ warnCount'[r] = warnCount[r] + 1
                      /\ request'[r] = NoRequest
                 ELSE IF CurrentCard(r).idList = LIST_MAPPING["Later"]
                 THEN /\ pc'[r] = "loop" /\ idx'[r] = idx[r] + 1
                      /\ request'[r] = NoRequest
                 ELSE /\ pc'[r] = "move"
                      /\ request'[r] = [card |-> CurrentCard(r).id,
                                        list |-> LIST_MAPPING["Later"]]]_vars

C12_Witness ==
    \E r \in Triggers :
        /\ pc[r] = "move"
        /\ cards[r][idx[r]].due = NoDue
        /\ request[r] = [card |-> idx[r], list |-> "list-later"]
        /\ board[idx[r]].idList = "list-inbox"

\* two runs have asked for the same move of the same card, each from its
\* own listing that showed the card in the same list
DoubleMove ==
    \E r1, r2 \in Triggers :
        /\ r1 # r2
        /\ pc[r1] = "move" /\ pc[r2] = "move"
        /\ request[r1] = request[r2]
        /\ cards[r1][idx[r1]].idList = cards[r2][idx[r2]].idList

\* C13: for every interleaving of the three triggers at most one
\* organizeCards call is in progress at a time, and no card has two move
\* requests outstanding that were decided from the same observation of its
\* list.
C13_OneRunAtATime ==
    /\ \A r1, r2 \in Triggers : r1 # r2 => ~(Active(r1) /\ Active(r2))
    /\ ~DoubleMove

\* C14: whichever triggers started the runs, no two move requests are in
\* flight at the same time, and no move request is in flight while the
\* delay that follows another move request has not yet elapsed.
C14_RateCeiling ==
    \A r1, r2 \in Triggers :
        r1 # r2 => ~(pc[r1] = "move" /\ pc[r2] \in {"move", "delay"})

\* C15: within one run, while a move request is awaited the loop stays at
\* its card; when the request returns, with success or with failure, the
\* run enters the delay, and only when the delay has elapsed does the loop
\* go on to the next card; a card that needs no move or is skipped for a
\* missing mapping takes the loop to the next card at once, with no delay.
C15_OneRequestThenDelay ==
    [][\A r \in Triggers :
          /\ (pc[r] = "move" /\ Steps(r)) =>
                 /\ pc'[r] = "delay"
                 /\ idx'[r] = idx[r] /\ request'[r] = request[r]
                 /\ movedCount'[r] + errorCount'[r] = movedCount[r] + errorCount[r] + 1
          /\ (pc[r] = "delay" /\ Steps(r)) =>
                 /\ pc'[r] = "loop" /\ idx'[r] = idx[r] + 1
                 /\ request'[r] = NoRequest
          /\ (pc[r] \in {"move", "delay"} /\ ~Steps(r)) => request'[r] = request[r]
          /\ (AtCard(r) /\ Steps(r) /\ pc'[r] # "move") =>
                 /\ pc'[r] = "loop" /\ idx'[r] = idx[r] + 1
                 /\ request'[r] = NoRequest
                 /\ movedCount'[r] = movedCount[r] /\ errorCount'[r] = errorCount[r]
          /\ (request'[r] # request[r] /\ request'[r] # NoRequest) =>
                 AtCard(r) /\ pc'[r] = "move"]_vars

C15_Witness ==
    \E r \in Triggers :
        /\ pc[r] = "delay"
        /\ idx[r] = 2
        /\ outcomes[r] = <<"placed", "failed">>
        /\ errorCount[r] = 1
        /\ request[r].card = 2

\* C16: within one run the cards are handled in the order of the listing,
\* each exactly once: the loop is at position i exactly when i - 1 cards
\* have been dealt with, the request awaited is for the card at that
\* position, and each card dealt with has one outcome, so a card whose move
\* failed is not asked to move again in that run.
C16_ListingOrderOnce ==
    \A r \in Triggers :
        Active(r) /\ pc[r] # "fetch" =>
            /\ \A i \in 1..Len(cards[r]) : cards[r][i].id = i
            /\ idx[r] \in 1..Len(cards[r]) + 1
            /\ pc[r] = "loop" => Len(outcomes[r]) = idx[r] - 1 /\ request[r] = NoRequest
            /\ pc[r] = "move" =>
                   /\ Len(outcomes[r]) = idx[r] - 1
                   /\ request[r].card = cards[r][idx[r]].id
            /\ pc[r] = "delay" =>
                   /\ Len(outcomes[r]) = idx[r]
                   /\ outcomes[r][idx[r]] \in {"moved", "failed"}
                   /\ request[r].card = cards[r][idx[r]].id
            /\ Count(outcomes[r], "moved") + Count(outcomes[r], "failed")
                   = movedCount[r] + errorCount[r]

C16_Witness ==
    \E r \in Triggers :
        /\ pc[r] = "move"
        /\ idx[r] = 2
        /\ outcomes[r] = <<"failed">>
        /\ request[r].card = 2
        /\ board[1].idList # LIST_MAPPING[determineTargetList(board[1].due, clock)]

\* C17: provided every board request returns and every delay timer fires,
\* a run that has started reaches its completion step, whatever mix of
\* moves, failures and skips occurs.
C17_RunTerminates ==
    \A r \in Triggers :
        Active(r) ~> (pc[r] = "idle" /\ lastRun.by = r /\ lastRun.completed)

C17_Witness ==
    /\ lastRun.completed
    /\ pc[lastRun.by] = "idle"
    /\ lastRun.moved = 1
    /\ lastRun.errors = 1
    /\ lastRun.warned = 0

\* card c sits in the list its bucket is mapped to and no move request for
\* it is outstanding
InPlace(c) ==
    /\ board[c].idList = MappedList(board[c].due, clock)
    /\ \A r \in Triggers : request[r].card # c

\* listing requests that are made again and again do not fail for ever
ListingRecovers == SF_vars(\E r \in Triggers : FetchOk(r))

\* C18 as amended: with the hourly trigger firing repeatedly, due dates and
\* the day unchanged, move requests for a card eventually succeeding and
\* listing requests eventually succeeding too, every card whose bucket has a
\* mapped list eventually sits in that list, and from then on no run issues
\* a move request for it; a card whose move failed in one run is therefore
\* asked to move again by a later run.
C18_EventuallyInPlace ==
    ListingRecovers =>
        \A c \in CardIds :
            <>[](MappedList(board[c].due, clock) = Unset \/ InPlace(c))

\* C18 as stated: with the hourly trigger firing repeatedly, due dates and
\* the day unchanged and move requests for a card eventually succeeding,
\* every card whose bucket has a mapped list eventually sits in that list
\* and from then on no run issues a move request for it.
C18_Original ==
    \A c \in CardIds :
        <>[](MappedList(board[c].due, clock) = Unset \/ InPlace(c))

C18_Witness ==
    \E r \in Triggers :
        /\ pred[r].valid /\ pred[r].listOk /\ pred[r].failed
        /\ pc[r] = "delay"
        /\ outcomes[r][Len(outcomes[r])] = "moved"
        /\ Count(outcomes[r], "failed") = 0
        /\ \A c \in CardIds :
               MappedList(board[c].due, clock) # Unset =>
                   board[c].idList = MappedList(board[c].due, clock)

====
